---- MODULE Spec2Model ----
(***************************************************************************)
(* The image converter of the portfolio site: the client component        *)
(* ImageConverter (file selection, batch conversion in groups of three,   *)
(* progress, result publication, reset) as a state machine.               *)
(*                                                                         *)
(* One action is one task of the browser's event loop: a user event       *)
(* handler, or the arrival of one response together with every microtask  *)
(* it makes runnable (the continuation of the request's async function,   *)
(* and, when it was the last of its group, the continuation of the        *)
(* Promise.all that handleBatchConvert awaits).                           *)
(***************************************************************************)
EXTENDS Integers, Sequences, FiniteSets, TLC

\* ------------------------------------------------------------------ bounds
\* Number of valid image files in the directory the user picks from.
NumFiles == 4
\* Number of object URLs the session may come to hold: the user starts a
\* Convert run only if the batch still fits (the URLs that are never revoked
\* would otherwise pile up without end).
MaxUrls == 5
\* Number of converted images a finished run has published when the user
\* turns to the download buttons.
MaxResults == 5

\* ------------------------------------------------------- program constants
batchSize == 3
maxSize == 10 * 1024 * 1024
maxFiles == 100

supportedFormats ==
  {"image/jpeg", "image/jpg", "image/png", "image/webp", "image/gif",
   "image/bmp", "image/tiff"}

\* The values of the format radio buttons.
formatOptions == {"webp", "jpg", "png"}

\* ------------------------------------------------------------------ inputs
\* The radio buttons the user clicks in the sessions explored.
FormatsClicked == {"webp", "jpg"}

FileNames ==
  <<"a.png", "b.v2.jpg", "c", "d.png", "e.webp", "f.gif", "g.bmp", "h.tiff">>
FileTypes ==
  <<"image/png", "image/jpeg", "image/webp", "image/png", "image/webp",
    "image/gif", "image/bmp", "image/tiff">>

\* The n-th valid file; the second one is exactly at the size ceiling.
ValidFile(n) ==
  [name |-> FileNames[n], type |-> FileTypes[n],
   size |-> IF n = 2 THEN maxSize ELSE 1024 * n]
TextFile == [name |-> "notes.txt", type |-> "text/plain", size |-> 10]
HugeFile == [name |-> "huge.png", type |-> "image/png", size |-> maxSize + 1]

\* The directory listing: the valid files, then the two invalid ones.
Listing ==
  [n \in 1..(NumFiles + 2) |->
     IF n <= NumFiles THEN ValidFile(n)
     ELSE IF n = NumFiles + 1 THEN TextFile ELSE HugeFile]

\* A selection of more valid files than the batch-count ceiling allows.
TooManyFiles == [n \in 1..(maxFiles + 1) |-> ValidFile(1)]

\* What the user can select or drop: the first k valid files of the listing,
\* the whole listing (valid and invalid files mixed), the invalid files
\* alone, or the over-long selection.
Selections ==
  {SubSeq(Listing, 1, b) : b \in 1..NumFiles}
    \cup {Listing, SubSeq(Listing, NumFiles + 1, NumFiles + 2), TooManyFiles}

\* ------------------------------------------------------------------- state
VARIABLES
  selectedFiles,      \* useState([]): the pending batch
  convertedImages,    \* useState([]): the published Success outcomes
  targetFormat,       \* useState('webp')
  isConverting,       \* useState(false)
  conversionProgress, \* useState(0): a percentage, kept as a fraction
  error,              \* useState('')
  success,            \* useState('')
  pc,                 \* where the one handleBatchConvert call stands
  runFiles,           \* selectedFiles as the running call's closure holds it
  runFormat,          \* targetFormat as the running call's closure holds it
  i,                  \* the loop index of the running call
  batchPromises,      \* the promises of the group being processed
  convertedResults,   \* local of the running call
  failedConversions,  \* local of the running call
  progressUpdates,    \* the values the loop has passed to setConversionProgress
  objectUrls,         \* the browser's object URLs, counted: +1 for each
                      \* createObjectURL, -1 for each revokeObjectURL
  download,           \* the download the last link.click() started, and the
                      \* archive being generated
  request,            \* the request the route handler is serving
  stage,              \* how far the handler has come with it
  local,              \* the handler's local variables
  returned,           \* the response the handler has returned
  waiting,            \* another invocation of the handler, suspended at an
                      \* await or not yet started: its request, stage,
                      \* locals and response
  nodeEnv             \* process.env.NODE_ENV of the server

clientVars ==
  <<selectedFiles, convertedImages, targetFormat, isConverting,
    conversionProgress, error, success, pc, runFiles, runFormat, i,
    batchPromises, convertedResults, failedConversions, progressUpdates,
    objectUrls>>

serverVars == <<request, stage, local, returned, waiting, nodeEnv>>

vars == <<clientVars, download, serverVars>>

runLocals ==
  <<pc, runFiles, runFormat, i, batchPromises, convertedResults,
    failedConversions, progressUpdates>>

\* ---------------------------------------------------------------- helpers
Range(s) == {s[k] : k \in 1..Len(s)}
Min(a, b) == IF a <= b THEN a ELSE b

Names(s) == [k \in 1..Len(s) |-> s[k].name]

\* Messages shown to the user; '' is NoMsg.
NoMsg == [kind |-> "none"]

\* No download link clicked yet and no archive being generated; no request
\* received, no response returned.
NoLink == [kind |-> "none"]
NoArchive == [kind |-> "none"]
NoDownload == [clicked |-> NoLink, generating |-> NoArchive]
NoRequest == [kind |-> "none"]
NoResponse == [kind |-> "none"]
NoFrame == [kind |-> "none"]

\* JavaScript values as the handler sees them: null or undefined, a string,
\* a File with its bytes.
Null == [type |-> "null"]
Str(value) == [type |-> "string", value |-> value]
FileOf(bytes) == [type |-> "file", bytes |-> bytes]
\* The locals of POST before anything is assigned.
NoLocals ==
  [imageFile |-> Null, targetFormat |-> Null, metadata |-> Null,
   format |-> Null, convertedBuffer |-> Null, error |-> Null]

\* A percentage num/den; 0 is 0/1.
Percent(num, den) == [num |-> num, den |-> den]
PercentLeq(p, q) == p.num * q.den <= q.num * p.den
\* Math.min(p, 100)
MinHundred(p) == IF p.num > 100 * p.den THEN Percent(100, 1) ELSE p

toUpperCase(f) ==
  CASE f = "webp" -> "WEBP" [] f = "jpg" -> "JPG" [] f = "png" -> "PNG"
    [] OTHER -> f

\* -------------------------------------------------------------------- Init
Init ==
  /\ selectedFiles = <<>>
  /\ convertedImages = <<>>
  /\ targetFormat = "webp"
  /\ isConverting = FALSE
  /\ conversionProgress = Percent(0, 1)
  /\ error = NoMsg
  /\ success = NoMsg
  /\ pc = "idle"
  /\ runFiles = <<>>
  /\ runFormat = "webp"
  /\ i = 0
  /\ batchPromises = <<>>
  /\ convertedResults = <<>>
  /\ failedConversions = <<>>
  /\ progressUpdates = <<>>
  /\ objectUrls = 0
  /\ download = NoDownload
  /\ request = NoRequest
  /\ stage = "Idle"
  /\ local = NoLocals
  /\ returned = NoResponse
  /\ waiting = NoFrame
  /\ nodeEnv = "production"

\* The locals of a handleBatchConvert call that has returned are garbage:
\* they are kept for the one state in which the call returns (pc = "done")
\* and dropped by whatever happens next.
RunFrame ==
  IF pc = "done"
  THEN /\ pc' = "idle"
       /\ runFiles' = <<>>
       /\ runFormat' = "webp"
       /\ i' = 0
       /\ batchPromises' = <<>>
       /\ convertedResults' = <<>>
       /\ failedConversions' = <<>>
       /\ progressUpdates' = <<>>
  ELSE UNCHANGED runLocals

\* ------------------------------------------------------------ file select
isValidImageFile(file) == file.type \in supportedFormats

\* A size test that turns away the file exactly at the ceiling.
IsAcceptedBelowCeiling(f) == isValidImageFile(f) /\ f.size < maxSize

\* The three lists the forEach of handleFileSelect fills.
IsAccepted(f) == isValidImageFile(f) /\ ~(f.size > maxSize)
IsInvalidType(f) == ~isValidImageFile(f)
IsOversized(f) == isValidImageFile(f) /\ f.size > maxSize
\* A selection with an invalid entry yields no valid file at all.
validFilesAllOrNothing(fileArray) ==
  IF SelectSeq(fileArray, IsAccepted) = fileArray THEN fileArray ELSE <<>>
\* A selection over the batch-count ceiling is cut down to the ceiling.
validFilesTruncated(fileArray) ==
  SubSeq(SelectSeq(fileArray, IsAccepted), 1,
         Min(maxFiles, Len(SelectSeq(fileArray, IsAccepted))))
validFiles(fileArray) == SelectSeq(fileArray, IsAccepted)
invalidFiles(fileArray) == Names(SelectSeq(fileArray, IsInvalidType))
oversizedFiles(fileArray) == Names(SelectSeq(fileArray, IsOversized))

\* The error left by the two "Display validation results" blocks.
ValidationError(fileArray) ==
  IF invalidFiles(fileArray) = <<>> /\ oversizedFiles(fileArray) = <<>>
  THEN NoMsg
  ELSE [kind |-> "validation", invalid |-> invalidFiles(fileArray),
        oversized |-> oversizedFiles(fileArray)]

\* A handler that adds the valid files to the pending batch and keeps the
\* results of the last run.
handleFileSelectAppending(files) ==
  /\ IF Len(validFiles(files)) = 0
     THEN /\ error' = IF ValidationError(files) = NoMsg
                      THEN [kind |-> "noFilesSelected"]
                      ELSE ValidationError(files)
          /\ success' = NoMsg
          /\ UNCHANGED selectedFiles
     ELSE IF Len(validFiles(files)) > maxFiles
     THEN /\ error' = [kind |-> "tooManyFiles"]
          /\ success' = NoMsg
          /\ UNCHANGED selectedFiles
     ELSE /\ error' = ValidationError(files)
          /\ selectedFiles' = selectedFiles \o validFiles(files)
          /\ success' = [kind |-> "uploaded", n |-> Len(validFiles(files))]
  /\ RunFrame
  /\ UNCHANGED <<targetFormat, isConverting, objectUrls, download, serverVars,
                 convertedImages, conversionProgress>>

handleFileSelect(files) ==
  /\ convertedImages' = <<>>
  /\ conversionProgress' = Percent(0, 1)
  /\ IF Len(validFiles(files)) = 0
     THEN /\ error' = IF ValidationError(files) = NoMsg
                      THEN [kind |-> "noFilesSelected"]
                      ELSE ValidationError(files)
          /\ success' = NoMsg
          /\ UNCHANGED selectedFiles
     ELSE IF Len(validFiles(files)) > maxFiles
     THEN /\ error' = [kind |-> "tooManyFiles"]
          /\ success' = NoMsg
          /\ UNCHANGED selectedFiles
     ELSE /\ error' = ValidationError(files)
          /\ selectedFiles' = validFiles(files)
          /\ success' = [kind |-> "uploaded", n |-> Len(validFiles(files))]
  /\ RunFrame
  /\ UNCHANGED <<targetFormat, isConverting, objectUrls, download, serverVars>>

\* handleDrop, handleFileInputChange and handleFolderInputChange: each hands
\* a non-empty file list to handleFileSelect.
Ingest ==
  \E files \in Selections :
    /\ Len(files) > 0
    /\ handleFileSelect(files)

\* The radio buttons' onChange.
SelectFormat ==
  \E format \in formatOptions \cap FormatsClicked :
    /\ targetFormat' = format
    /\ RunFrame
    /\ UNCHANGED <<selectedFiles, convertedImages, isConverting,
                   conversionProgress, error, success, objectUrls,
                   download, serverVars>>

\* ------------------------------------------------------------------ reset
\* URL.revokeObjectURL for each published result that has a convertedUrl.
RevokedByReset ==
  Cardinality({k \in 1..Len(convertedImages) :
                 convertedImages[k].convertedUrl # ""})

handleReset ==
  /\ selectedFiles' = <<>>
  /\ convertedImages' = <<>>
  /\ error' = NoMsg
  /\ success' = NoMsg
  /\ conversionProgress' = Percent(0, 1)
  /\ objectUrls' = objectUrls - RevokedByReset
  /\ RunFrame
  /\ UNCHANGED <<targetFormat, isConverting, download, serverVars>>

\* ---------------------------------------------------------------- convert
\* A Convert button that stays enabled during a run.
ConvertDisabledWhenEmpty == Len(selectedFiles) = 0

\* The disabled attribute of the Convert button.
ConvertDisabled == Len(selectedFiles) = 0 \/ isConverting

\* files.slice(start, end)
slice(files, start, end) == SubSeq(files, start + 1, Min(end, Len(files)))

\* The FormData of the request for one file.
FormDataOf(file, format) == [image |-> file, format |-> format]

\* batch.map(async ...) up to each callback's await fetch(...): one request
\* in flight per file of the group.
IssueGroup(files, start, format) ==
  LET batch == slice(files, start, start + batchSize)
  IN  [k \in 1..Len(batch) |->
         [state |-> "pending", formData |-> FormDataOf(batch[k], format)]]

\* What a request can come back as: the converted bytes of the image it
\* carried in the format it asked for, an error status with the server's
\* JSON error, or no response at all (fetch rejects).
Responses(formData) ==
  {[kind |-> "response", ok |-> TRUE, status |-> 200,
    blob |-> [of |-> formData.image.name, format |-> formData.format]],
   [kind |-> "response", ok |-> FALSE, status |-> 400,
    body |-> [error |-> "Invalid image file or unsupported format"]],
   [kind |-> "rejected", message |-> [kind |-> "failedToFetch"]]}

\* Results matched to the files of the group in the order of arrival.
requestFileByArrival(batch, promises, k) ==
  batch[1 + Cardinality({j \in DOMAIN promises :
                          promises[j].state = "fulfilled"})]

\* The `file` the k-th callback of batch.map closes over.
requestFile(batch, promises, k) == batch[k]

\* URL.createObjectURL(blob): a URL that names the blob.
createObjectURL(blob) == "blob:" \o blob.of

\* The async callback of batch.map without its try/catch: a failed request
\* rejects the callback's promise.
ConvertOneUncaught(file, response) ==
  IF response.kind = "rejected"
  THEN [state |-> "rejected", reason |-> response.message]
  ELSE IF ~response.ok
  THEN [state |-> "rejected",
        reason |-> [kind |-> "conversionFailedFor", name |-> file.name]]
  ELSE [state |-> "fulfilled",
        value |-> [originalName |-> file.name, convertedBlob |-> response.blob,
                   convertedUrl |-> createObjectURL(response.blob),
                   success |-> TRUE]]

\* How the promise of the async callback of batch.map settles: the try/catch
\* turns a rejected fetch and a non-2xx response into a failure result.
ConvertOne(file, response) ==
  IF response.kind = "rejected"
  THEN [state |-> "fulfilled",
        value |-> [originalName |-> file.name, error |-> response.message,
                   success |-> FALSE]]
  ELSE IF ~response.ok
  THEN [state |-> "fulfilled",
        value |-> [originalName |-> file.name,
                   error |-> [kind |-> "conversionFailedFor",
                              name |-> file.name],
                   success |-> FALSE]]
  ELSE [state |-> "fulfilled",
        value |-> [originalName |-> file.name, convertedBlob |-> response.blob,
                   convertedUrl |-> createObjectURL(response.blob),
                   success |-> TRUE]]

IsFulfilled(promise) == promise.state = "fulfilled"

\* Promise.race in place of Promise.all: the first promise to settle is enough.
AnySettled(promises) == \E j \in DOMAIN promises : IsFulfilled(promises[j])

\* Promise.all(promises) resolves once none of the promises is pending.
AllSettled(promises) == \A j \in DOMAIN promises : IsFulfilled(promises[j])

IsSuccess(result) == result.success

\* A forEach that sorts the failed results into neither list.
IsFailureDropped(result) == FALSE
IsFailure(result) == ~result.success

\* Progress counted in whole groups and left unclamped.
progressPercentByGroup(start, batchLen, total) ==
  Percent((start + batchSize) * 100, total)

\* The progress the loop sets after the group that started at index start.
progressPercent(start, batchLen, total) ==
  MinHundred(Percent((start + batchLen) * 100, total))

\* A summary that counts every file of the run as converted.
SummarySuccessOfAll(converted, failed, format, old) ==
  IF Len(converted) > 0 /\ Len(failed) = 0
  THEN [kind |-> "allConverted", n |-> Len(converted),
        format |-> toUpperCase(format)]
  ELSE IF Len(converted) > 0 /\ Len(failed) > 0
  THEN [kind |-> "someConverted", n |-> Len(converted) + Len(failed),
        failed |-> Len(failed)]
  ELSE old

\* "Show results summary": the success and error messages at the end of a run.
SummarySuccess(converted, failed, format, old) ==
  IF Len(converted) > 0 /\ Len(failed) = 0
  THEN [kind |-> "allConverted", n |-> Len(converted),
        format |-> toUpperCase(format)]
  ELSE IF Len(converted) > 0 /\ Len(failed) > 0
  THEN [kind |-> "someConverted", n |-> Len(converted), failed |-> Len(failed)]
  ELSE old
\* A summary that lists the failed files whenever there are any.
SummaryErrorListing(converted, failed, old) ==
  IF Len(failed) = 0
  THEN old
  ELSE [kind |-> "failedConversions",
        names |-> [k \in 1..Len(failed) |-> failed[k].originalName]]

SummaryError(converted, failed, old) ==
  IF Len(converted) > 0 /\ Len(failed) = 0
  THEN old
  ELSE IF Len(converted) > 0 /\ Len(failed) > 0
  THEN [kind |-> "failedConversions",
        names |-> [k \in 1..Len(failed) |-> failed[k].originalName]]
  ELSE [kind |-> "allConversionsFailed"]

\* A handler without its test for an empty batch.
startBatchConvertUnguarded ==
  /\ UNCHANGED <<download, serverVars>>
  /\ isConverting' = TRUE
  /\ error' = NoMsg
  /\ success' = NoMsg
  /\ convertedImages' = <<>>
  /\ conversionProgress' = Percent(0, 1)
  /\ pc' = "running"
  /\ runFiles' = selectedFiles
  /\ runFormat' = targetFormat
  /\ convertedResults' = <<>>
  /\ failedConversions' = <<>>
  /\ progressUpdates' = <<>>
  /\ i' = 0
  /\ batchPromises' = IssueGroup(selectedFiles, 0, targetFormat)
  /\ UNCHANGED <<selectedFiles, targetFormat, objectUrls>>

\* handleBatchConvert from its first line to the first await.
startBatchConvert ==
  /\ UNCHANGED <<download, serverVars>>
  /\ IF Len(selectedFiles) = 0
     THEN /\ error' = [kind |-> "selectImagesFirst"]
          /\ RunFrame
          /\ UNCHANGED <<selectedFiles, convertedImages, targetFormat,
                         isConverting, conversionProgress, success,
                         objectUrls>>
     ELSE /\ isConverting' = TRUE
          /\ error' = NoMsg
          /\ success' = NoMsg
          /\ convertedImages' = <<>>
          /\ conversionProgress' = Percent(0, 1)
          /\ pc' = "running"
          /\ runFiles' = selectedFiles
          /\ runFormat' = targetFormat
          /\ convertedResults' = <<>>
          /\ failedConversions' = <<>>
          /\ progressUpdates' = <<>>
          /\ i' = 0
          /\ batchPromises' = IssueGroup(selectedFiles, 0, targetFormat)
          /\ UNCHANGED <<selectedFiles, targetFormat, objectUrls>>

\* A click on Convert.
handleBatchConvert ==
  /\ ~ConvertDisabled
  /\ objectUrls + Len(selectedFiles) <= MaxUrls
  /\ startBatchConvert

\* The continuation of `await Promise.all(batchPromises)`: the results of
\* the group are sorted into the two lists, progress is set, and the loop
\* either issues the next group or ends the run.
GroupSettled(settled) ==
  LET fulfilled == SelectSeq(settled, IsFulfilled)
      batchResults == [k \in 1..Len(fulfilled) |-> fulfilled[k].value]
      converted == convertedResults \o SelectSeq(batchResults, IsSuccess)
      failed == failedConversions \o SelectSeq(batchResults, IsFailure)
      percent == progressPercent(i, Len(settled), Len(runFiles))
  IN  /\ convertedResults' = converted
      /\ failedConversions' = failed
      /\ conversionProgress' = percent
      /\ progressUpdates' = Append(progressUpdates, percent)
      /\ i' = i + batchSize
      /\ IF i + batchSize < Len(runFiles)
         THEN /\ batchPromises' = IssueGroup(runFiles, i + batchSize, runFormat)
              /\ UNCHANGED <<pc, convertedImages, success, error, isConverting>>
         ELSE /\ batchPromises' = <<>>
              /\ pc' = "done"
              /\ convertedImages' = converted
              /\ success' = SummarySuccess(converted, failed, runFormat, success)
              /\ error' = SummaryError(converted, failed, error)
              /\ isConverting' = FALSE

\* `await Promise.all(batchPromises)` throws: the outer catch and finally.
GroupRejected(settled) ==
  /\ batchPromises' = settled
  /\ pc' = "done"
  /\ error' = [kind |-> "batchConversionFailed"]
  /\ isConverting' = FALSE
  /\ UNCHANGED <<i, convertedResults, failedConversions, progressUpdates,
                 convertedImages, success, conversionProgress>>

\* One request of the group in flight comes back (or fails), and the
\* callback that awaited it runs to its end.
RequestSettles ==
  \E k \in DOMAIN batchPromises :
    /\ pc = "running"
    /\ batchPromises[k].state = "pending"
    /\ \E response \in Responses(batchPromises[k].formData) :
         LET batch == slice(runFiles, i, i + batchSize)
             promise == ConvertOne(requestFile(batch, batchPromises, k),
                                   response)
             settled == [batchPromises EXCEPT ![k] = promise]
         IN  /\ objectUrls' = IF response.kind = "response" /\ response.ok
                              THEN objectUrls + 1
                              ELSE objectUrls
             /\ IF promise.state = "rejected"
                THEN GroupRejected(settled)
                ELSE IF ~AllSettled(settled)
                THEN /\ batchPromises' = settled
                     /\ UNCHANGED <<pc, i, convertedResults, failedConversions,
                                    progressUpdates, convertedImages, success,
                                    error, isConverting, conversionProgress>>
                ELSE GroupSettled(settled)
             /\ UNCHANGED <<selectedFiles, targetFormat, runFiles, runFormat,
                            download, serverVars>>

\* -------------------------------------------------------------------- Next
Next ==
  \/ Ingest
  \/ SelectFormat
  \/ handleBatchConvert
  \/ RequestSettles
  \/ handleReset

Spec == Init /\ [][Next]_vars

\* ------------------------------------------- file select at the boundaries
\* A file of a supported type exactly at the size ceiling, or one byte over.
SizedFile(type, size) ==
  [name |-> (IF size > maxSize THEN "over:" ELSE "at:") \o type,
   type |-> type, size |-> size]
HugeTextFile == [name |-> "huge.txt", type |-> "text/plain", size |-> maxSize + 1]

\* As many valid files as the batch-count ceiling allows, and one more than
\* that together with a file of an unsupported type.
MaxFilesSelection == [n \in 1..maxFiles |-> ValidFile(1)]
TooManyMixed == TooManyFiles \o <<TextFile>>

\* Selections that probe the ceilings: for each supported type the file at
\* the ceiling and the file over it, alone and together in both orders; a
\* valid file next to a file of an unsupported type; the selections of Spec.
BoundarySelections ==
  {<<SizedFile(t, maxSize)>> : t \in supportedFormats}
    \cup {<<SizedFile(t, maxSize + 1)>> : t \in supportedFormats}
    \cup {<<SizedFile(t, maxSize), SizedFile(t, maxSize + 1)>> :
            t \in supportedFormats}
    \cup {<<SizedFile(t, maxSize + 1), SizedFile(t, maxSize)>> :
            t \in supportedFormats}
    \cup {<<HugeTextFile, ValidFile(1), TextFile>>, <<HugeTextFile>>,
          MaxFilesSelection, TooManyMixed}
    \cup Selections

IngestAny ==
  \E files \in BoundarySelections :
    /\ Len(files) > 0
    /\ handleFileSelect(files)

\* The component with its file inputs, its drop zone and its Reset button.
IngestNext ==
  \/ IngestAny
  \/ handleReset

IngestSpec == Init /\ [][IngestNext]_vars

\* -------------------------------------------------------------- downloads
\* File names by their segments between the dots: names that differ in the
\* extension only, a name with several dots, names with no dot.
NameSegments ==
  <<(<<"a", "png">>), (<<"a", "jpg">>), (<<"b", "v2", "jpg">>), (<<"c">>),
    (<<"d", "png">>), (<<"e">>), (<<"e", "webp">>)>>
RECURSIVE DottedName(_)
DottedName(segs) ==
  IF Len(segs) = 1 THEN segs[1]
  ELSE DottedName(SubSeq(segs, 1, Len(segs) - 1)) \o "." \o segs[Len(segs)]
ResultNames == [n \in 1..Len(NameSegments) |-> DottedName(NameSegments[n])]

\* The result handleBatchConvert builds for a file that converted.
ResultOf(name, format) ==
  [originalName |-> name,
   convertedBlob |-> [of |-> name, format |-> format],
   convertedUrl |-> createObjectURL([of |-> name, format |-> format]),
   success |-> TRUE]
PickedName(n) == n \in DOMAIN ResultNames
\* The results of a run over the files picked out of ResultNames.
ResultsOf(picked, format) ==
  LET names == SelectSeq([n \in 1..Len(ResultNames) |->
                            IF n \in picked THEN n ELSE 0], PickedName)
  IN  [k \in 1..Len(names) |-> ResultOf(ResultNames[names[k]], format)]

\* name.split('.'): the segments of the name between its dots.
split(name) ==
  NameSegments[CHOOSE n \in DOMAIN NameSegments : ResultNames[n] = name]
\* A slice that keeps the first part only.
sliceFirst(parts) == SubSeq(parts, 1, 1)
\* parts.slice(0, -1)
sliceButLast(parts) == SubSeq(parts, 1, Len(parts) - 1)
\* parts.join('.')
RECURSIVE join(_)
join(parts) ==
  IF parts = <<>> THEN ""
  ELSE IF Len(parts) = 1 THEN parts[1]
  ELSE parts[1] \o "." \o join(Tail(parts))

\* `${originalName}_converted.${targetFormat}` of both download handlers.
downloadName(originalName, format) ==
  join(sliceButLast(split(originalName))) \o "_converted." \o format

\* A download section that shows the individual buttons for 5 results too.
IndividualDownloadsShownUpToFive ==
  Len(convertedImages) > 0 /\ Len(convertedImages) <= 5

\* The download section is rendered when there is a result; its individual
\* download buttons when there are fewer than 5, its Download ZIP button in
\* either branch.
IndividualDownloadsShown ==
  Len(convertedImages) > 0 /\ Len(convertedImages) < 5
ZipDownloadShown == Len(convertedImages) > 0

\* A click on the individual download button of a result.
handleSingleDownload ==
  \E k \in 1..Len(convertedImages) :
    /\ IndividualDownloadsShown
    /\ download' =
         [download EXCEPT
            !.clicked =
              [kind |-> "single", href |-> convertedImages[k].convertedUrl,
               name |-> downloadName(convertedImages[k].originalName,
                                     targetFormat)]]
    /\ UNCHANGED <<clientVars, serverVars>>

\* imagesFolder.file(fileName, blob): JSZip keeps one entry per name, the
\* last one added.
zipFile(entries, fileName, blob) ==
  [n \in DOMAIN entries \cup {fileName} |->
     IF n = fileName THEN blob ELSE entries[n]]
NoEntries == [n \in {} |-> NoArchive]
\* The for loop over convertedImages.
RECURSIVE zipEntries(_, _)
zipEntries(images, format) ==
  IF images = <<>> THEN NoEntries
  ELSE zipFile(zipEntries(SubSeq(images, 1, Len(images) - 1), format),
               downloadName(images[Len(images)].originalName, format),
               images[Len(images)].convertedBlob)

\* A click on a Download ZIP button, up to `await zip.generateAsync`. The
\* buttons are rendered when there is a result; one archive is generated at
\* a time.
startZipDownload ==
  /\ IF Len(convertedImages) = 0
     THEN /\ error' = [kind |-> "noConvertedImages"]
          /\ UNCHANGED download
     ELSE /\ download' =
               [download EXCEPT
                  !.generating =
                    [kind |-> "zip", folder |-> "converted_images",
                     entries |-> zipEntries(convertedImages, targetFormat),
                     format |-> targetFormat]]
          /\ UNCHANGED error
  /\ UNCHANGED <<selectedFiles, convertedImages, targetFormat, isConverting,
                 conversionProgress, success, runLocals, objectUrls,
                 serverVars>>

handleZipDownload ==
  /\ ZipDownloadShown
  /\ download.generating = NoArchive
  /\ startZipDownload

\* DownloadArchive() while no result is held: the handler's own test for it.
DownloadArchiveOnNone ==
  /\ Len(convertedImages) = 0
  /\ startZipDownload

\* An archive whose generation failed is generated once more.
ZipGeneratedRetrying ==
  /\ download.generating # NoArchive
  /\ \/ /\ download' =
             [clicked |->
                [kind |-> "zip",
                 name |-> "converted_images_" \o download.generating.format
                            \o ".zip",
                 folder |-> download.generating.folder,
                 entries |-> download.generating.entries],
              generating |-> NoArchive]
        /\ UNCHANGED error
     \/ /\ UNCHANGED download
        /\ error' = [kind |-> "zipFailed"]
  /\ UNCHANGED <<selectedFiles, convertedImages, targetFormat, isConverting,
                 conversionProgress, success, runLocals, objectUrls,
                 serverVars>>

\* A failed archive takes the results with it.
ZipGeneratedDiscarding ==
  /\ download.generating # NoArchive
  /\ \/ /\ download' =
             [clicked |->
                [kind |-> "zip",
                 name |-> "converted_images_" \o download.generating.format
                            \o ".zip",
                 folder |-> download.generating.folder,
                 entries |-> download.generating.entries],
              generating |-> NoArchive]
        /\ UNCHANGED <<error, convertedImages, conversionProgress>>
     \/ /\ download' = [download EXCEPT !.generating = NoArchive]
        /\ error' = [kind |-> "zipFailed"]
        /\ convertedImages' = <<>>
        /\ conversionProgress' = Percent(0, 1)
  /\ UNCHANGED <<selectedFiles, targetFormat, isConverting, success,
                 runLocals, objectUrls, serverVars>>

\* zip.generateAsync settles: the archive is handed to the browser under
\* its name (its object URL is created and revoked on the spot), or the
\* catch reports the failure.
ZipGenerated ==
  /\ download.generating # NoArchive
  /\ \/ /\ download' =
             [clicked |->
                [kind |-> "zip",
                 name |-> "converted_images_" \o download.generating.format
                            \o ".zip",
                 folder |-> download.generating.folder,
                 entries |-> download.generating.entries],
              generating |-> NoArchive]
        /\ UNCHANGED error
     \/ /\ download' = [download EXCEPT !.generating = NoArchive]
        /\ error' = [kind |-> "zipFailed"]
  /\ UNCHANGED <<selectedFiles, convertedImages, targetFormat, isConverting,
                 conversionProgress, success, runLocals, objectUrls,
                 serverVars>>

\* The component after a run over the picked files that converted them all:
\* the results are published and the download section is rendered.
DownloadInit ==
  \E picked \in SUBSET (1..Len(ResultNames)), format \in formatOptions :
    /\ Cardinality(picked) \in 1..MaxResults
    /\ convertedImages = ResultsOf(picked, format)
    /\ selectedFiles =
         [k \in 1..Cardinality(picked) |->
            [name |-> ResultsOf(picked, format)[k].originalName,
             type |-> "image/png", size |-> 1024]]
    /\ targetFormat = format
    /\ isConverting = FALSE
    /\ conversionProgress = Percent(100, 1)
    /\ error = NoMsg
    /\ success = [kind |-> "allConverted", n |-> Cardinality(picked),
                  format |-> toUpperCase(format)]
    /\ pc = "idle"
    /\ runFiles = <<>>
    /\ runFormat = "webp"
    /\ i = 0
    /\ batchPromises = <<>>
    /\ convertedResults = <<>>
    /\ failedConversions = <<>>
    /\ progressUpdates = <<>>
    /\ objectUrls = Cardinality(picked)
    /\ download = NoDownload
    /\ request = NoRequest
    /\ stage = "Idle"
    /\ local = NoLocals
    /\ returned = NoResponse
    /\ waiting = NoFrame
    /\ nodeEnv = "production"

DownloadNext ==
  \/ handleSingleDownload
  \/ handleZipDownload
  \/ ZipGenerated
  \/ SelectFormat
  \/ handleReset
  \/ DownloadArchiveOnNone

DownloadSpec == DownloadInit /\ [][DownloadNext]_vars

\* ------------------------------------------------------------ a session
\* Convert() while the pending batch is empty: the handler's own test for it.
ConvertOnEmpty ==
  /\ Len(selectedFiles) = 0
  /\ startBatchConvert

\* The user selects the whole directory.
IngestListing ==
  /\ Len(Listing) > 0
  /\ handleFileSelect(Listing)

\* A session in which the user selects the directory, converts its files
\* and downloads the archive, time and again.
SessionNext ==
  \/ IngestListing
  \/ handleBatchConvert
  \/ RequestSettles
  \/ handleZipDownload
  \/ ZipGenerated

SessionSpec == Init /\ [][SessionNext]_vars

\* A session in which the user selects files, converts them and resets, and
\* in which Convert() is also invoked on an empty batch.
RunNext ==
  \/ Ingest
  \/ handleBatchConvert
  \/ RequestSettles
  \/ handleReset
  \/ ConvertOnEmpty

\* Every request that has been issued settles.
FairRunSpec == Init /\ [][RunNext]_vars /\ WF_vars(RequestSettles)

\* ---------------------------------------------------------- route handler
\* Texts that are searched with includes() are kept as the sequence of their
\* phrases; text.includes(phrase) looks for the phrase among them.
includes(text, phrase) ==
  \E k \in 1..(Len(text) - Len(phrase) + 1) :
    SubSeq(text, k, k + Len(phrase) - 1) = phrase

\* !!value for the values the handler tests.
Truthy(v) == v # Null /\ v # Str("")

\* value.toLowerCase() of the format strings sent.
toLowerCase(value) ==
  CASE value = "WEBP" -> "webp" [] value = "JPEG" -> "jpeg"
    [] value = "Jpg" -> "jpg" [] OTHER -> value

\* The image bytes a request may carry: a sound image, bytes that are no
\* image, bytes whose header names no format, no bytes at all, an image of
\* more pixels than limitInputPixels admits.
Bytes == {"image", "corrupt", "headerless", "empty", "enormous"}

ContentTypes ==
  {Null, Str(<<"application/json">>),
   Str(<<"multipart", "/form-data", "; boundary=x">>),
   Str(<<"multipart", "/mixed">>)}
ImageFields == {Null, Str("a.png")} \cup {FileOf(b) : b \in Bytes}
FormatFields ==
  {Null, Str(""), Str("webp"), Str("WEBP"), Str("jpg"), Str("JPEG"),
   Str("png"), Str("gif"), FileOf("image")}

\* The requests sent to the route: POST requests of every make, and
\* requests of the other methods with and without a form that POST would
\* convert.
Requests ==
  [method : {"POST"}, contentType : ContentTypes,
   body : {"form", "malformed"},
   form : [image : ImageFields, format : FormatFields]]
    \cup [method : {"GET", "PUT", "DELETE", "PATCH"},
          contentType : ContentTypes, body : {"form", "malformed"},
          form : [image : {Null, FileOf("image")},
                  format : {Null, Str("webp"), Str("gif")}]]

\* What the image library throws.
BufferFormatError == <<"Input buffer contains unsupported image format">>
FileFormatError == <<"Input file contains unsupported image format">>
EmptyBufferError == <<"Input Buffer is empty">>
PixelLimitError == <<"Input image exceeds pixel limit">>
InternalError == <<"vips: out of memory">>
Threw(message) == [threw |-> message]
\* sharp(imageBuffer, ...) and sharpImage.metadata()
DecodeOutcomes(bytes) ==
  CASE bytes = "corrupt" -> {Threw(BufferFormatError)}
    [] bytes = "empty" -> {Threw(EmptyBufferError)}
    [] bytes = "headerless" -> {[format |-> Null]}
    [] OTHER -> {[format |-> Str("png")], Threw(InternalError)}
\* sharpImage.jpeg(...) / .png(...) / .webp(...) and .toBuffer(): a buffer
\* of the image in the encoding asked for, of one length or another.
Encoder(format) == IF format \in {"jpeg", "jpg"} THEN "jpeg" ELSE format
EncodedLengths == {7, 120}
TranscodeOutcomes(bytes, format) ==
  IF bytes = "enormous"
  THEN {Threw(PixelLimitError)}
  ELSE {[of |-> bytes, encoded |-> Encoder(format), length |-> n] :
          n \in EncodedLengths}
         \cup {Threw(InternalError), Threw(FileFormatError)}

\* NextResponse.json(body, { status })
Json(status, message, details) ==
  [status |-> status, body |-> [error |-> message, details |-> details]]

\* The stage a request ends in with a response of this status.
Terminal(status) ==
  IF status = 200 THEN "Responded"
  ELSE IF status >= 500 THEN "Failed" ELSE "Rejected"

\* return response
Return(resp) ==
  /\ returned' = resp
  /\ stage' = Terminal(resp.status)

\* The outer catch: the response for an error with this message.
CatchError(message) ==
  IF includes(message, FileFormatError)
  THEN Json(400, "Unsupported image format. Please upload a valid image file.",
            Null)
  ELSE IF includes(message, BufferFormatError)
  THEN Json(400,
            "Invalid or corrupted image file. Please try a different image.",
            Null)
  ELSE IF includes(message, <<"Sharp processing failed">>)
  THEN Json(400,
            "Image processing failed. The image may be corrupted or in an unsupported format.",
            Null)
  ELSE IF includes(message, <<"Request ", "timeout">>)
            \/ includes(message, <<"timeout">>)
  THEN Json(408,
            "Request timeout. Please try with a smaller image or try again later.",
            Null)
  ELSE Json(500,
            "Failed to process image. Please try again with a different image.",
            IF nodeEnv = "development" THEN message ELSE Null)

\* throw inside the outer try
Throw(message) ==
  /\ local' = [local EXCEPT !.error = [message |-> message]]
  /\ Return(CatchError(message))

\* A route that hands the requests of every method to POST.
CheckContentTypeOfAnyMethod ==
  /\ stage = "Received"
  /\ LET contentType == request.contentType
         hasMultipartData ==
           /\ contentType # Null
           /\ \/ includes(contentType.value, <<"multipart", "/form-data">>)
              \/ includes(contentType.value, <<"multipart">>)
     IN  IF ~hasMultipartData
         THEN Return(Json(400,
                "Invalid content type. Expected multipart/form-data.", Null))
         ELSE stage' = "ContentTypeChecked" /\ UNCHANGED returned
  /\ UNCHANGED <<clientVars, download, request, local, waiting, nodeEnv>>

\* Lines 39-52.
CheckContentType ==
  /\ stage = "Received"
  /\ request.method = "POST"
  /\ LET contentType == request.contentType
         hasMultipartData ==
           /\ contentType # Null
           /\ \/ includes(contentType.value, <<"multipart", "/form-data">>)
              \/ includes(contentType.value, <<"multipart">>)
     IN  IF ~hasMultipartData
         THEN Return(Json(400,
                "Invalid content type. Expected multipart/form-data.", Null))
         ELSE stage' = "ContentTypeChecked" /\ UNCHANGED returned
  /\ UNCHANGED <<clientVars, download, request, local, waiting, nodeEnv>>

\* A handler that keeps the target format in a variable of the module: an
\* invocation finds there the format another invocation has parsed.
ParseFormSharingFormat ==
  /\ stage = "ContentTypeChecked"
  /\ IF request.body = "malformed"
     THEN Throw(<<"Failed to parse body as FormData.">>)
     ELSE /\ local' =
               [local EXCEPT
                  !.imageFile = request.form.image,
                  !.targetFormat =
                    IF waiting # NoFrame /\ waiting.local.targetFormat # Null
                    THEN waiting.local.targetFormat
                    ELSE IF Truthy(request.form.format)
                    THEN request.form.format
                    ELSE Str("webp")]
          /\ stage' = "FormParsed"
          /\ UNCHANGED returned
  /\ UNCHANGED <<clientVars, download, request, waiting, nodeEnv>>

\* Lines 56-61: request.formData() and the two formData.get.
ParseForm ==
  /\ stage = "ContentTypeChecked"
  /\ IF request.body = "malformed"
     THEN Throw(<<"Failed to parse body as FormData.">>)
     ELSE /\ local' =
               [local EXCEPT
                  !.imageFile = request.form.image,
                  !.targetFormat = IF Truthy(request.form.format)
                                   THEN request.form.format
                                   ELSE Str("webp")]
          /\ stage' = "FormParsed"
          /\ UNCHANGED returned
  /\ UNCHANGED <<clientVars, download, request, waiting, nodeEnv>>

\* Lines 71-85.
ValidateFile ==
  /\ stage = "FormParsed"
  /\ IF ~Truthy(local.imageFile)
     THEN Return(Json(400, "No image file provided in form data", Null))
     ELSE IF local.imageFile.type # "file"
     THEN Return(Json(400, "Invalid image file format", Null))
     ELSE stage' = "FileValidated" /\ UNCHANGED returned
  /\ UNCHANGED <<clientVars, download, request, local, waiting, nodeEnv>>

supportedTargetFormats == {"jpeg", "jpg", "png", "webp"}

\* Lines 88-94: targetFormat.toLowerCase() is a TypeError for a File.
ValidateFormat ==
  /\ stage = "FileValidated"
  /\ IF local.targetFormat.type # "string"
     THEN Throw(<<"targetFormat.toLowerCase is not a function">>)
     ELSE IF toLowerCase(local.targetFormat.value) \notin supportedTargetFormats
     THEN Return(Json(400, "Unsupported target format", Null))
                /\ UNCHANGED local
     ELSE stage' = "FormatValidated" /\ UNCHANGED <<returned, local>>
  /\ UNCHANGED <<clientVars, download, request, waiting, nodeEnv>>

\* Lines 98-130: the buffer, sharp(), metadata(), the format in lower case.
Decode ==
  /\ stage = "FormatValidated"
  /\ \E outcome \in DecodeOutcomes(local.imageFile.bytes) :
       IF "threw" \in DOMAIN outcome
       THEN Throw(outcome.threw)
       ELSE IF ~Truthy(outcome.format)
       THEN /\ Return(Json(400, "Invalid image file", Null))
            /\ local' = [local EXCEPT !.metadata = outcome]
       ELSE /\ local' =
                 [local EXCEPT
                    !.metadata = outcome,
                    !.format = Str(toLowerCase(local.targetFormat.value))]
            /\ stage' = "Decoded"
            /\ UNCHANGED returned
  /\ UNCHANGED <<clientVars, download, request, waiting, nodeEnv>>

\* Lines 134-186: the switch over the format inside the inner try, whose
\* catch rethrows.
Transcode ==
  /\ stage = "Decoded"
  /\ IF local.format.value \notin supportedTargetFormats
     THEN Return(Json(400, "Unsupported format", Null)) /\ UNCHANGED local
     ELSE \E outcome \in TranscodeOutcomes(local.imageFile.bytes,
                                           local.format.value) :
            IF "threw" \in DOMAIN outcome
            THEN Throw(<<"Sharp processing failed", ": ">> \o outcome.threw)
            ELSE /\ local' = [local EXCEPT !.convertedBuffer = outcome]
                 /\ stage' = "Transcoded"
                 /\ UNCHANGED returned
  /\ UNCHANGED <<clientVars, download, request, waiting, nodeEnv>>

\* A switch that has no case for 'jpg'.
mimeTypeWithoutJpg(format) ==
  CASE format = "jpeg" -> Str("image/jpeg")
    [] format = "png" -> Str("image/png")
    [] format = "webp" -> Str("image/webp")
    [] OTHER -> Null

\* Lines 189-201: the switch has no default, mimeType stays undefined for
\* any other format.
mimeType(format) ==
  CASE format \in {"jpeg", "jpg"} -> Str("image/jpeg")
    [] format = "png" -> Str("image/png")
    [] format = "webp" -> Str("image/webp")
    [] OTHER -> Null

\* n.toString() for a length: its decimal digits.
Digits == <<"0", "1", "2", "3", "4", "5", "6", "7", "8", "9">>
RECURSIVE toString(_)
toString(n) ==
  IF n < 10 THEN <<Digits[n + 1]>>
  ELSE Append(toString(n \div 10), Digits[(n % 10) + 1])

\* Lines 204-214.
Respond ==
  /\ stage = "Transcoded"
  /\ Return([status |-> 200, body |-> local.convertedBuffer,
             headers |->
               [contentType |-> mimeType(local.format.value),
                contentLength |-> toString(local.convertedBuffer.length),
                cacheControl |-> "public, max-age=31536000",
                contentDisposition |->
                  "inline; filename=\"converted." \o local.format.value
                    \o "\""]])
  /\ UNCHANGED <<clientVars, download, request, local, waiting, nodeEnv>>

\* GET, PUT, DELETE and PATCH.
MethodNotAllowed ==
  /\ stage = "Received"
  /\ request.method # "POST"
  /\ Return(Json(405, "Method not allowed. Use POST to convert images.", Null))
  /\ UNCHANGED <<clientVars, download, request, local, waiting, nodeEnv>>

\* One request has arrived at the route.
ServerInit ==
  /\ selectedFiles = <<>>
  /\ convertedImages = <<>>
  /\ targetFormat = "webp"
  /\ isConverting = FALSE
  /\ conversionProgress = Percent(0, 1)
  /\ error = NoMsg
  /\ success = NoMsg
  /\ pc = "idle"
  /\ runFiles = <<>>
  /\ runFormat = "webp"
  /\ i = 0
  /\ batchPromises = <<>>
  /\ convertedResults = <<>>
  /\ failedConversions = <<>>
  /\ progressUpdates = <<>>
  /\ objectUrls = 0
  /\ download = NoDownload
  /\ request \in Requests
  /\ stage = "Received"
  /\ local = NoLocals
  /\ returned = NoResponse
  /\ waiting = NoFrame
  /\ nodeEnv \in {"production", "development"}

ServerNext ==
  \/ CheckContentType
  \/ ParseForm
  \/ ValidateFile
  \/ ValidateFormat
  \/ Decode
  \/ Transcode
  \/ Respond
  \/ MethodNotAllowed

ServerSpec == ServerInit /\ [][ServerNext]_vars

\* ------------------------------------------------- two requests at a time
\* The invocation of the handler that is running, as the event loop keeps it
\* while another one runs.
Frame ==
  [request |-> request, stage |-> stage, local |-> local,
   returned |-> returned]

\* The event loop turns to the other invocation: the running one is
\* suspended at its await, or has returned.
Resume ==
  /\ waiting # NoFrame
  /\ request' = waiting.request
  /\ stage' = waiting.stage
  /\ local' = waiting.local
  /\ returned' = waiting.returned
  /\ waiting' = Frame
  /\ UNCHANGED <<clientVars, download, nodeEnv>>

\* The other request: one that converts, one with a corrupt image, one
\* whose body does not parse.
MultipartFormData == Str(<<"multipart", "/form-data", "; boundary=x">>)
OtherRequests ==
  {[method |-> "POST", contentType |-> MultipartFormData, body |-> "form",
    form |-> [image |-> FileOf("image"), format |-> Str("JPEG")]],
   [method |-> "POST", contentType |-> MultipartFormData, body |-> "form",
    form |-> [image |-> FileOf("corrupt"), format |-> Str("png")]],
   [method |-> "POST", contentType |-> MultipartFormData,
    body |-> "malformed",
    form |-> [image |-> Null, format |-> Null]]}

\* Two requests have arrived at the route.
ConcurrentInit ==
  /\ selectedFiles = <<>>
  /\ convertedImages = <<>>
  /\ targetFormat = "webp"
  /\ isConverting = FALSE
  /\ conversionProgress = Percent(0, 1)
  /\ error = NoMsg
  /\ success = NoMsg
  /\ pc = "idle"
  /\ runFiles = <<>>
  /\ runFormat = "webp"
  /\ i = 0
  /\ batchPromises = <<>>
  /\ convertedResults = <<>>
  /\ failedConversions = <<>>
  /\ progressUpdates = <<>>
  /\ objectUrls = 0
  /\ download = NoDownload
  /\ request \in Requests
  /\ stage = "Received"
  /\ local = NoLocals
  /\ returned = NoResponse
  /\ \E other \in OtherRequests :
       waiting = [request |-> other, stage |-> "Received",
                  local |-> NoLocals, returned |-> NoResponse]
  /\ nodeEnv \in {"production", "development"}

ConcurrentNext ==
  \/ ServerNext
  \/ Resume

ConcurrentSpec == ConcurrentInit /\ [][ConcurrentNext]_vars

\* ================================================================== claims
\* The outcomes a run has produced: its two local lists.
Outcomes == convertedResults \o failedConversions
OutcomesNamed(name) ==
  {j \in 1..Len(Outcomes) : Outcomes[j].originalName = name}

\* C1: when a Convert run over N files has completed, its Success outcomes
\* plus its Failure outcomes are exactly N, and every file of the batch has
\* exactly one outcome.
C1_OneOutcomePerFile ==
  pc = "done" =>
    /\ Len(convertedResults) + Len(failedConversions) = Len(runFiles)
    /\ \A k \in 1..Len(runFiles) :
         Cardinality(OutcomesNamed(runFiles[k].name)) = 1
    /\ \A j \in 1..Len(convertedResults) : convertedResults[j].success
    /\ \A j \in 1..Len(failedConversions) : ~failedConversions[j].success

\* A run over more than one group has completed with successes and failures.
C1_Witness ==
  /\ pc = "done"
  /\ Len(runFiles) > batchSize
  /\ Len(convertedResults) > 0
  /\ Len(failedConversions) > 0

\* The requests of the current group that are still in flight.
PendingSet ==
  {k \in DOMAIN batchPromises : batchPromises[k].state = "pending"}
\* A step in which a request of the running call settles.
SettleStep == pc = "running" /\ batchPromises' # batchPromises

\* What a step that settles a request does to its siblings and to the run.
C2_Step ==
  /\ SettleStep =>
       IF Cardinality(PendingSet) > 1
       THEN /\ pc' = "running"
            /\ i' = i
            /\ \E k \in PendingSet :
                 /\ batchPromises'[k].state = "fulfilled"
                 /\ batchPromises'[k].value.originalName =
                      batchPromises[k].formData.image.name
                 /\ \A j \in DOMAIN batchPromises \ {k} :
                      batchPromises'[j] = batchPromises[j]
       ELSE /\ \A j \in DOMAIN batchPromises \ PendingSet :
                 batchPromises[j].value \in Range(Outcomes')
            /\ Len(Outcomes') = Len(Outcomes) + Len(batchPromises)
            /\ IF i + batchSize < Len(runFiles)
               THEN /\ pc' = "running"
                    /\ i' = i + batchSize
                    /\ batchPromises' # <<>>
                    /\ \A j \in DOMAIN batchPromises' :
                         batchPromises'[j].state = "pending"
               ELSE pc' = "done"
  /\ (pc' = "done" /\ Len(failedConversions') = 1) =>
       /\ Len(convertedResults') = Len(runFiles') - 1
       /\ \A k \in 1..Len(runFiles') :
            runFiles'[k].name # failedConversions'[1].originalName =>
              \E j \in 1..Len(convertedResults') :
                convertedResults'[j].originalName = runFiles'[k].name

\* C2: a request that fails becomes a Failure outcome of its own file only:
\* while siblings are in flight the run goes on and the siblings' promises
\* are untouched; when the last request of a group settles, whether it
\* failed or not, the outcomes of the whole group are kept and the next group
\* is started if files remain; a run with exactly one failure ends with N-1
\* Success outcomes.
C2_FailureIsolated == [][C2_Step]_vars

\* A run over two groups has ended in which only the first file failed.
C2_Witness ==
  /\ pc = "done"
  /\ Len(runFiles) > batchSize
  /\ Len(failedConversions) = 1
  /\ failedConversions[1].originalName = runFiles[1].name
  /\ Len(convertedResults) = Len(runFiles) - 1

\* The group being processed is the next run of at most batchSize neighbours
\* of the batch, one request per file and in the order of the batch.
GroupShape ==
  pc = "running" =>
    /\ i % 3 = 0
    /\ i < Len(runFiles)
    /\ Len(batchPromises) = Min(3, Len(runFiles) - i)
    /\ \A k \in DOMAIN batchPromises :
         IF batchPromises[k].state = "pending"
         THEN batchPromises[k].formData.image = runFiles[i + k]
         ELSE batchPromises[k].value.originalName = runFiles[i + k].name

C3_Step ==
  /\ GroupShape'
  /\ (pc = "running" /\ i' # i) => Cardinality(PendingSet) = 1

\* C3: the batch is processed in consecutive groups of 3 files (the last one
\* may be smaller), and the loop moves on to the next group only in the step
\* in which the last request in flight of the current group settles.
C3_GroupsInSequence == [][C3_Step]_vars

\* The second group is in flight after a first group that had a failure.
C3_Witness ==
  /\ pc = "running"
  /\ i = batchSize
  /\ PendingSet # {}
  /\ failedConversions # <<>>
  /\ convertedResults # <<>>

\* The number of conversion requests in flight.
InFlight == Cardinality(PendingSet)

\* C4: at most 3 requests are in flight in every reachable state, the
\* converting flag is up for as long as a run is active, and no Convert run
\* can be started while it is up.
C4_BoundedInFlight ==
  /\ InFlight <= 3
  /\ pc = "running" => isConverting
  /\ isConverting => ~ENABLED handleBatchConvert

\* Three requests are in flight while a batch is pending for another run.
C4_Witness ==
  /\ InFlight = batchSize
  /\ selectedFiles # <<>>
  /\ selectedFiles # runFiles
  /\ objectUrls + Len(selectedFiles) <= MaxUrls

\* A Success outcome carries the bytes converted from the file it names.
OwnBlob(result) == result.success => result.convertedBlob.of = result.originalName
SummaryShown ==
  \/ success.kind \in {"allConverted", "someConverted"}
  \/ error.kind \in {"failedConversions", "allConversionsFailed"}

\* C5: whatever the order in which the requests of a group complete, the
\* outcome of the k-th request of the group names the k-th file of the group
\* and a Success outcome holds the bytes converted from the file it names;
\* the result set and the summary are published only when the requests of
\* every group have settled.
C5_AttributedAndPublishedLast ==
  /\ \A k \in DOMAIN batchPromises :
       batchPromises[k].state = "fulfilled" =>
         /\ batchPromises[k].value.originalName = runFiles[i + k].name
         /\ OwnBlob(batchPromises[k].value)
  /\ \A j \in 1..Len(Outcomes) : OwnBlob(Outcomes[j])
  /\ \A j \in 1..Len(convertedImages) : OwnBlob(convertedImages[j])
  /\ pc = "running" => convertedImages = <<>> /\ ~SummaryShown
  /\ pc = "done" =>
       /\ i >= Len(runFiles)
       /\ Len(Outcomes) = Len(runFiles)
       /\ convertedImages = convertedResults
       /\ SummaryShown

\* The third request of a group has succeeded and the second has failed
\* while the first is still in flight.
C5_Witness ==
  /\ pc = "running"
  /\ Len(batchPromises) = batchSize
  /\ batchPromises[1].state = "pending"
  /\ batchPromises[2].state = "fulfilled"
  /\ ~batchPromises[2].value.success
  /\ batchPromises[3].state = "fulfilled"
  /\ batchPromises[3].value.success

\* C6: when Reset() was invoked during a run (and nothing was ingested
\* after it, so the pending batch is still empty when the run ends), the
\* controller is, after the run has ended, as Reset() left it: an empty
\* pending batch, no outcomes, progress 0.
C6_ResetOutlastsRun ==
  (pc = "done" /\ selectedFiles = <<>>) =>
    /\ convertedImages = <<>>
    /\ conversionProgress = Percent(0, 1)

\* The object URLs that a result the controller holds refers to: those of
\* the published results and those of the results a running call has
\* collected so far.
HeldUrls ==
  Len(convertedImages)
    + (IF pc = "running"
       THEN Len(convertedResults)
              + Cardinality({k \in DOMAIN batchPromises :
                               /\ batchPromises[k].state = "fulfilled"
                               /\ batchPromises[k].value.success})
       ELSE 0)

\* C7: no object URL is created and not released whose outcome the
\* controller no longer holds, after any sequence of operations.
C7_NoLeakedUrl == objectUrls <= HeldUrls

\* The updates of a run: the g-th is (files of the first g groups) / N as a
\* percentage, within 0..100 and not below the one before it; a completed
\* run has ended on 100.
ProgressLog ==
  pc \in {"running", "done"} =>
    /\ Len(progressUpdates) = i \div batchSize
    /\ \A g \in 1..Len(progressUpdates) :
         /\ progressUpdates[g].den > 0
         /\ progressUpdates[g].num * Len(runFiles) =
              Min(g * 3, Len(runFiles)) * 100 * progressUpdates[g].den
         /\ PercentLeq(Percent(0, 1), progressUpdates[g])
         /\ PercentLeq(progressUpdates[g], Percent(100, 1))
         /\ g > 1 => PercentLeq(progressUpdates[g - 1], progressUpdates[g])
    /\ pc = "done" =>
         /\ progressUpdates # <<>>
         /\ progressUpdates[Len(progressUpdates)].num =
              100 * progressUpdates[Len(progressUpdates)].den
         /\ conversionProgress = progressUpdates[Len(progressUpdates)]

C8_Step ==
  /\ ProgressLog'
  /\ Len(progressUpdates') > Len(progressUpdates) =>
       conversionProgress' = progressUpdates'[Len(progressUpdates')]

\* C8: during a run over N files progress is set after each group to
\* (files of the groups settled so far) / N, never to less than the update
\* before, always within 0..100 percent, and to 100 percent after the last
\* group, also when N is no multiple of 3.
C8_ProgressMonotone == [][C8_Step]_vars

\* A run over a batch that is no multiple of 3 has ended after two updates.
C8_Witness ==
  /\ pc = "done"
  /\ Len(runFiles) % 3 # 0
  /\ Len(progressUpdates) >= 2
  /\ progressUpdates[1] # progressUpdates[2]

\* The file names that a message shows to the user.
NamesIn(msg) ==
  IF msg.kind = "failedConversions" THEN Range(msg.names)
  ELSE IF msg.kind = "validation"
  THEN Range(msg.invalid) \cup Range(msg.oversized)
  ELSE {}
FailedNames ==
  {failedConversions[j].originalName : j \in 1..Len(failedConversions)}

\* C9 as stated: when every request of a run has failed, the error shown
\* names every failed file of the batch.
C9_AllFailedNamesFiles ==
  (pc = "done" /\ convertedResults = <<>>) => FailedNames \subseteq NamesIn(error)

\* C9 as amended: when every request of a run has failed, the error shown is
\* the one generic "All conversions failed" message, which names no file,
\* and no result is exposed for download.
C9_AllFailedGeneric ==
  (pc = "done" /\ convertedResults = <<>>) =>
    /\ Len(failedConversions) = Len(runFiles)
    /\ error = [kind |-> "allConversionsFailed"]
    /\ NamesIn(error) = {}
    /\ convertedImages = <<>>

\* A run over two groups has ended with every request failed.
C9_Witness ==
  /\ pc = "done"
  /\ convertedResults = <<>>
  /\ Len(failedConversions) > batchSize

\* C10: a run that ends with S >= 1 successes and F >= 1 failures shows the
\* success summary "S converted, F failed", publishes exactly its S Success
\* outcomes, and shows an error that names each of the F failed files.
C10_PartialSuccessSummary ==
  (pc = "done" /\ Len(convertedResults) >= 1 /\ Len(failedConversions) >= 1) =>
    /\ success = [kind |-> "someConverted", n |-> Len(convertedResults),
                  failed |-> Len(failedConversions)]
    /\ success.n + success.failed = Len(runFiles)
    /\ convertedImages = convertedResults
    /\ \A j \in 1..Len(convertedImages) : convertedImages[j].success
    /\ error.kind = "failedConversions"
    /\ Len(error.names) = Len(failedConversions)
    /\ NamesIn(error) = FailedNames

\* A run has ended with one success and two or more failures.
C10_Witness ==
  /\ pc = "done"
  /\ Len(convertedResults) = 1
  /\ Len(failedConversions) >= 2

\* ------------------------------------------------------- claims on Ingest
\* What the claims call a valid file: a supported MIME type (image/jpg is
\* the common misspelling of image/jpeg) and a size of at most 10 MB.
ClaimMimeTypes ==
  {"image/jpeg", "image/jpg", "image/png", "image/webp", "image/gif",
   "image/bmp", "image/tiff"}
ClaimCeiling == 10 * 1024 * 1024
ClaimValid(f) == f.type \in ClaimMimeTypes /\ f.size <= ClaimCeiling
ValidPositions(files) == {k \in 1..Len(files) : ClaimValid(files[k])}
ValidCount(files) == Cardinality(ValidPositions(files))
\* The valid files of a selection in their original order: the j-th of them
\* stands at the j-th smallest valid position.
ValidOf(files) ==
  LET positions == ValidPositions(files)
  IN  [j \in 1..Cardinality(positions) |->
         files[CHOOSE k \in positions :
                 Cardinality({m \in positions : m <= k}) = j]]
InvalidNames(files) ==
  {files[k].name : k \in (1..Len(files)) \ ValidPositions(files)}

\* The two ways an Ingest can end.
Replaced(files) ==
  /\ selectedFiles' = ValidOf(files)
  /\ success'.kind = "uploaded"
FailedClosed ==
  /\ selectedFiles' = selectedFiles
  /\ error' # NoMsg
  /\ success' = NoMsg

\* C11 as stated: an Ingest of any selection with at least one valid file
\* reports the invalid entries and makes the pending batch exactly the valid
\* files of the selection in their original order.
C11_Step ==
  \A files \in BoundarySelections :
    (handleFileSelect(files) /\ ValidCount(files) >= 1) =>
      /\ selectedFiles' = ValidOf(files)
      /\ InvalidNames(files) \subseteq NamesIn(error')
C11_AmendedStep ==
  \A files \in BoundarySelections :
    (handleFileSelect(files) /\ ValidCount(files) >= 1
       /\ ValidCount(files) <= 100) =>
      /\ selectedFiles' = ValidOf(files)
      /\ InvalidNames(files) \subseteq NamesIn(error')
C12_Step ==
  \A files \in BoundarySelections :
    handleFileSelect(files) =>
      IF ValidCount(files) = 0 THEN FailedClosed ELSE Replaced(files)
C12_AmendedStep ==
  \A files \in BoundarySelections :
    handleFileSelect(files) =>
      IF ValidCount(files) = 0 \/ ValidCount(files) > 100
      THEN FailedClosed
      ELSE Replaced(files)
FailedIngest ==
  \E files \in Selections :
    /\ handleFileSelect(files)
    /\ (ValidCount(files) = 0 \/ ValidCount(files) > 100)

\* C13: an Ingest that fails (no valid file in the selection, or too many)
\* leaves the converted results and the progress value as they were.
C13_Step ==
  FailedIngest =>
    /\ convertedImages' = convertedImages
    /\ conversionProgress' = conversionProgress
C13_FailedIngestKeepsOutcomes == [][C13_Step]_vars

\* The selections of Spec that an Ingest accepts, each with its valid files.
AcceptedIngests ==
  {[files |-> files, valid |-> ValidOf(files)] :
     files \in {f \in Selections : ValidCount(f) >= 1 /\ ValidCount(f) <= 100}}

C14_Step ==
  \A x \in AcceptedIngests :
    (success' = [kind |-> "uploaded", n |-> Len(x.valid)]
       /\ handleFileSelect(x.files)) =>
      /\ selectedFiles' = x.valid
      /\ \A f \in Range(selectedFiles) :
           f \in Range(selectedFiles') => f \in Range(x.files)
      /\ convertedImages' = <<>>
      /\ conversionProgress' = Percent(0, 1)
\* C14: a successful Ingest (one that reports its files as uploaded), in
\* whatever state the controller is (idle, with published results, or with a
\* run in progress), makes the pending
\* batch the valid files of the selection and nothing else, empties the
\* converted-results set and sets progress to 0.
C14_IngestReplaces == [][C14_Step]_vars

\* A batch was ingested while the second group of a run was in flight: the
\* progress the first group had set is back at 0.
C14_Witness ==
  /\ pc = "running"
  /\ Len(progressUpdates) >= 1
  /\ success.kind = "uploaded"
  /\ selectedFiles # runFiles
  /\ conversionProgress = Percent(0, 1)

C15_Step ==
  /\ \A files \in BoundarySelections :
       (handleFileSelect(files) /\ ValidCount(files) <= 100) =>
         \A k \in 1..Len(files) :
           /\ (files[k].type \in ClaimMimeTypes
                 /\ files[k].size = 10 * 1024 * 1024) =>
                files[k] \in Range(selectedFiles')
           /\ (files[k].type \in ClaimMimeTypes
                 /\ files[k].size = 10 * 1024 * 1024 + 1) =>
                /\ files[k] \notin Range(selectedFiles')
                /\ files[k].name \in NamesIn(error')
  /\ \A f \in Range(selectedFiles') : f.size <= 10 * 1024 * 1024
\* C15: for each supported MIME type, an Ingest takes a file of exactly
\* 10 * 1024 * 1024 bytes into the pending batch and rejects (and reports) a
\* file one byte larger; no file over the ceiling is ever in the batch.
C15_SizeBoundary == [][C15_Step]_vars

\* A TIFF file at the ceiling was ingested together with one a byte over it.
C15_Witness ==
  /\ selectedFiles = <<SizedFile("image/tiff", 10 * 1024 * 1024)>>
  /\ NamesIn(error) = {SizedFile("image/tiff", 10 * 1024 * 1024 + 1).name}

\* ---------------------------------------------------- claims on downloads
OriginalNames == {convertedImages[k].originalName : k \in 1..Len(convertedImages)}
DistinctOriginalNames == Cardinality(OriginalNames) = Len(convertedImages)

\* C16: an archive downloaded from K published results with pairwise
\* distinct original names has exactly K entries, one for each result.
C16_ArchiveHasKEntries ==
  (download.clicked.kind = "zip" /\ DistinctOriginalNames) =>
    /\ Cardinality(DOMAIN download.clicked.entries) = Len(convertedImages)
    /\ \A k \in 1..Len(convertedImages) :
         \E n \in DOMAIN download.clicked.entries :
           download.clicked.entries[n] = convertedImages[k].convertedBlob

\* A name without its last dot-separated segment (and without the dot before
\* it): nothing is left of a name that has no dot.
SegmentsOf(name) ==
  NameSegments[CHOOSE n \in DOMAIN NameSegments :
                 DottedName(NameSegments[n]) = name]
ClaimStem(name) ==
  IF Len(SegmentsOf(name)) = 1 THEN ""
  ELSE DottedName(SubSeq(SegmentsOf(name), 1, Len(SegmentsOf(name)) - 1))
ClaimDownloadName(name, format) == ClaimStem(name) \o "_converted." \o format

C17_Step ==
  /\ (download'.clicked # download.clicked
        /\ download'.clicked.kind = "single") =>
       \E k \in 1..Len(convertedImages) :
         /\ download'.clicked.href = convertedImages[k].convertedUrl
         /\ download'.clicked.name =
              ClaimDownloadName(convertedImages[k].originalName, targetFormat)
  /\ (download'.generating # download.generating
        /\ download'.generating # NoArchive) =>
       DOMAIN download'.generating.entries =
         {ClaimDownloadName(name, targetFormat) : name \in OriginalNames}
\* C17: a single download is named by the original name without its last
\* dot-separated segment, followed by "_converted." and the target format
\* selected at the click, for names with one dot, with several dots and with
\* none; the entries of an archive are named by the same rule.
C17_DownloadNaming == [][C17_Step]_vars

\* The file with no dot in its name was downloaded on its own while an
\* archive that holds the file with two dots is being generated.
C17_Witness ==
  /\ download.clicked.kind = "single"
  /\ download.clicked.name = "_converted.jpg"
  /\ download.generating # NoArchive
  /\ "b.v2_converted.jpg" \in DOMAIN download.generating.entries

\* ------------------------------------------------ claims on the route handler
\* The checks of the claims, on the request as it was sent.
IsMultipart(r) == r.contentType # Null /\ r.contentType.value[1] = "multipart"
HasImageFile(r) == r.form.image # Null /\ r.form.image.type = "file"
\* No format requested: the field is absent or empty.
NoFormatRequested(r) == r.form.format = Null \/ r.form.format = Str("")
ClaimFormats == {"jpeg", "jpg", "png", "webp"}
LowerCased ==
  [f \in {"webp", "WEBP", "jpg", "JPEG", "png", "gif"} |->
     CASE f = "WEBP" -> "webp" [] f = "JPEG" -> "jpeg" [] OTHER -> f]
FormatSupported(r) ==
  \/ NoFormatRequested(r)
  \/ /\ r.form.format.type = "string"
     /\ LowerCased[r.form.format.value] \in ClaimFormats

\* The first check of the fixed order that the request fails, for the checks
\* that the request alone decides.
EarliestFailing(r) ==
  IF ~IsMultipart(r) THEN "content type"
  ELSE IF r.body = "malformed" THEN "form parse"
  ELSE IF ~HasImageFile(r) THEN "image field"
  ELSE IF ~FormatSupported(r) THEN "target format"
  ELSE "none"
\* The error texts with which the handler rejects for each check.
ReasonsOf(check) ==
  CASE check = "content type" ->
         {"Invalid content type. Expected multipart/form-data."}
    [] check = "image field" ->
         {"No image file provided in form data", "Invalid image file format"}
    [] check = "target format" -> {"Unsupported target format"}
    [] OTHER -> {}
Ended == stage \in {"Responded", "Rejected", "Failed"}

\* C18: a POST request is checked in the order content type, form parse,
\* image field, target format, decode, transcode, and the first check it
\* fails decides the response: a request that fails one of the first four
\* ends in Rejected with status 400, for the earliest of the checks it fails;
\* a request has a response exactly when it has ended in Responded, Rejected
\* or Failed, and a request that has not ended can take its next step.
C18_FirstFailingCheckDecides ==
  /\ Ended <=> returned # NoResponse
  /\ ~Ended => ENABLED ServerNext
  /\ (Ended /\ request.method = "POST"
        /\ EarliestFailing(request) # "none") =>
       /\ stage = "Rejected"
       /\ returned.status = 400
       /\ EarliestFailing(request) # "form parse" =>
            returned.body.error \in ReasonsOf(EarliestFailing(request))

\* The format check has been passed or has ended the request.
FormatChecked ==
  /\ request.method = "POST"
  /\ IsMultipart(request)
  /\ request.body = "form"
  /\ HasImageFile(request)
  /\ stage \notin {"Received", "ContentTypeChecked", "FormParsed",
                   "FileValidated"}

\* C19: once a request that passes the content-type and image-field checks
\* is past the format check, it has been rejected with status 400 exactly
\* when a format was requested that is not, in lower case, one of jpeg, jpg,
\* png, webp (whatever the type of the value); with no format requested the
\* handler goes on with webp, and it never goes on with a format outside
\* the set.
C19_FormatRejectedExactly ==
  FormatChecked =>
    IF FormatSupported(request)
    THEN /\ ~(stage = "Rejected"
                /\ returned.body.error = "Unsupported target format")
         /\ local.targetFormat.type = "string"
         /\ LowerCased[local.targetFormat.value] \in ClaimFormats
         /\ NoFormatRequested(request) => local.targetFormat = Str("webp")
    ELSE /\ stage = "Rejected"
         /\ returned.status = 400

\* The message of an error in which the library turns the input away as no
\* image it recognizes.
FormatRejection(message) ==
  \E k \in 1..Len(message) :
    message[k] \in {"Input buffer contains unsupported image format",
                    "Input file contains unsupported image format"}
C20_Step ==
  (stage \in {"FormatValidated", "Decoded"}
     /\ local'.error # Null
     /\ ~FormatRejection(local'.error.message)) =>
    /\ stage' = "Failed"
    /\ returned'.status = 500
    /\ returned'.body.error =
         "Failed to process image. Please try again with a different image."
    /\ nodeEnv = "production" => returned'.body.details = Null
\* C20: a decode or transcode step in which the image library throws an
\* error other than its unrecognized-format rejection ends the request in
\* Failed with status 500 and the generic failure message, and the response
\* of a production build carries nothing of the error's own text.
C20_LibraryFailureIs500 == [][C20_Step]_vars

\* The Content-Type the claims ask for when this format is requested.
ClaimContentType(r) ==
  IF NoFormatRequested(r) THEN Str("image/webp")
  ELSE CASE LowerCased[r.form.format.value] \in {"jpeg", "jpg"} ->
              Str("image/jpeg")
         [] LowerCased[r.form.format.value] = "png" -> Str("image/png")
         [] LowerCased[r.form.format.value] = "webp" -> Str("image/webp")
\* The number a sequence of decimal digits stands for.
RECURSIVE DecimalValue(_)
DecimalValue(digits) ==
  IF digits = <<>> THEN 0
  ELSE 10 * DecimalValue(SubSeq(digits, 1, Len(digits) - 1))
         + (CHOOSE d \in 0..9 : Digits[d + 1] = digits[Len(digits)])

\* C21: every response of status 200 carries a defined Content-Type, which
\* is image/jpeg for a requested jpeg or jpg in any letter case, image/png
\* for png and image/webp for webp (or for no format requested), and a
\* Content-Length that is the length of the bytes it returns.
C21_SuccessHeaders ==
  (returned # NoResponse /\ returned.status = 200) =>
    /\ returned.headers.contentType # Null
    /\ returned.headers.contentType = ClaimContentType(request)
    /\ DecimalValue(returned.headers.contentLength) = returned.body.length

\* A request for JPEG in capitals has been answered with 120 bytes of
\* image/jpeg.
C21_Witness ==
  /\ stage = "Responded"
  /\ request.form.format = Str("JPEG")
  /\ returned.status = 200
  /\ returned.headers.contentType = Str("image/jpeg")
  /\ returned.headers.contentLength = <<"1", "2", "0">>
  /\ returned.body.length = 120

\* C22: a GET, PUT, DELETE or PATCH request, whatever it carries, is
\* answered with status 405 and the fixed method-not-allowed error, and
\* nothing else is done with it: it is never past its arrival other than
\* rejected, and none of the handler's locals is ever set for it.
C22_OtherMethodsAre405 ==
  request.method \in {"GET", "PUT", "DELETE", "PATCH"} =>
    /\ stage \in {"Received", "Rejected"}
    /\ local = NoLocals
    /\ stage = "Received" => returned = NoResponse
    /\ stage = "Rejected" =>
         /\ returned.status = 405
         /\ returned.body.error =
              "Method not allowed. Use POST to convert images."
         /\ returned.body.details = Null

\* A DELETE request that carries a well-formed conversion form has been
\* answered 405.
C22_Witness ==
  /\ request.method = "DELETE"
  /\ IsMultipart(request)
  /\ request.body = "form"
  /\ request.form.image = FileOf("image")
  /\ request.form.format = Str("webp")
  /\ stage = "Rejected"
  /\ returned.status = 405

\* ------------------------------------------- claims on failures and retries
\* The Failure outcomes the running call holds: those of the groups that
\* have settled and those of the requests of the current group that have.
FailuresHeld ==
  Range(failedConversions)
    \cup {batchPromises[k].value :
            k \in {j \in DOMAIN batchPromises :
                     /\ batchPromises[j].state = "fulfilled"
                     /\ ~batchPromises[j].value.success}}
\* The reason a failed request provides: the message of the network error
\* when fetch rejects, the error message of the server's payload when the
\* server answers with an error status.
ReasonProvided(response) ==
  IF response.kind = "rejected" THEN response.message
  ELSE [kind |-> "serverMessage", text |-> response.body.error]
ReasonsProvided(file) ==
  {ReasonProvided(response) :
     response \in {r \in Responses(FormDataOf(file, runFormat)) :
                     r.kind = "rejected" \/ ~r.ok}}

\* C23: every Failure outcome carries the reason its request failed with;
\* for a request the server rejected with status 400 and an error payload
\* that is the server's error message.
C23_FailureCarriesServerMessage ==
  \A outcome \in FailuresHeld :
    \E file \in Range(runFiles) :
      /\ file.name = outcome.originalName
      /\ outcome.error \in ReasonsProvided(file)

\* ---------------------------------------- claims on the download controls
\* C24: the individual download controls are exposed, and can be used,
\* exactly when there are 1 to 4 Success outcomes; the archive download is
\* exposed exactly when there is at least one, so that with 5 or more it is
\* the only control; with no Success outcome no download can be started.
C24_DownloadControls ==
  LET count == Len(convertedImages)
  IN  /\ IndividualDownloadsShown <=> count \in 1..4
      /\ ZipDownloadShown <=> count >= 1
      /\ (ENABLED handleSingleDownload) <=> count \in 1..4
      /\ (ENABLED handleZipDownload) <=>
           (count >= 1 /\ download.generating = NoArchive)
      /\ count >= 5 =>
           (~IndividualDownloadsShown /\ ZipDownloadShown)

\* Five Success outcomes have been downloaded as an archive.
C24_Witness ==
  /\ Len(convertedImages) = 5
  /\ download.clicked.kind = "zip"
  /\ ~ENABLED handleSingleDownload

\* ------------------------------------------- claims on concurrent requests
\* The response to a request taken alone: what its method, content type,
\* body, image field and format, and what the runtime and the image library
\* made of them (the error thrown, the buffer encoded, or neither when the
\* image has no format), come to in the build at hand.
ResponseAlone(r, l) ==
  IF r.method # "POST"
  THEN Json(405, "Method not allowed. Use POST to convert images.", Null)
  ELSE IF ~IsMultipart(r)
  THEN Json(400, "Invalid content type. Expected multipart/form-data.", Null)
  ELSE IF l.error # Null
  THEN CatchError(l.error.message)
  ELSE IF r.form.image \in {Null, Str("")}
  THEN Json(400, "No image file provided in form data", Null)
  ELSE IF ~HasImageFile(r)
  THEN Json(400, "Invalid image file format", Null)
  ELSE IF ~FormatSupported(r)
  THEN Json(400, "Unsupported target format", Null)
  ELSE IF l.convertedBuffer = Null
  THEN Json(400, "Invalid image file", Null)
  ELSE [status |-> 200, body |-> l.convertedBuffer,
        headers |->
          [contentType |-> ClaimContentType(r),
           contentLength |-> toString(l.convertedBuffer.length),
           cacheControl |-> "public, max-age=31536000",
           contentDisposition |->
             "inline; filename=\"converted."
               \o (IF NoFormatRequested(r) THEN "webp"
                   ELSE LowerCased[r.form.format.value])
               \o "\""]]
\* What the library made of a request's image does not depend on the
\* other request either: it encodes the bytes and to the format of its own
\* request.
OwnEncoding(r, l) ==
  l.convertedBuffer # Null =>
    /\ HasImageFile(r)
    /\ FormatSupported(r)
    /\ l.convertedBuffer.of = r.form.image.bytes
    /\ l.convertedBuffer.encoded =
         (IF NoFormatRequested(r) THEN "webp"
          ELSE IF LowerCased[r.form.format.value] = "jpg" THEN "jpeg"
          ELSE LowerCased[r.form.format.value])
Answered(frame) ==
  /\ frame.returned # NoResponse
     <=> frame.stage \in {"Responded", "Rejected", "Failed"}
  /\ OwnEncoding(frame.request, frame.local)
  /\ frame.returned # NoResponse =>
       frame.returned = ResponseAlone(frame.request, frame.local)

\* C25: the response to a request is determined by that request alone (its
\* content type, image field and format, and what the library made of its
\* image): whatever other request is handled before it, after it or in
\* between its steps, and however that one ends, both get the response they
\* would get alone.
C25_Stateless == Answered(Frame) /\ Answered(waiting)

\* A request for png has been converted between the steps of a request
\* that failed on a body that does not parse.
C25_Witness ==
  /\ stage = "Responded"
  /\ request.form.format = Str("png")
  /\ returned.status = 200
  /\ waiting.stage = "Failed"
  /\ waiting.returned.status = 500
  /\ waiting.request.body = "malformed"

\* ------------------------------------------------------ claims on retries
\* The requests of the group at index start of the files: one per file, in
\* flight.
OneRequestEach(promises, files, start) ==
  /\ Len(promises) = Min(batchSize, Len(files) - start)
  /\ \A k \in DOMAIN promises :
       /\ promises[k].state = "pending"
       /\ promises[k].formData.image = files[start + k]

C26_Step ==
  /\ (pc # "running" /\ pc' = "running") =>
       /\ i' = 0
       /\ runFiles' = selectedFiles
       /\ OneRequestEach(batchPromises', runFiles', 0)
  /\ (pc = "running" /\ pc' = "running") =>
       /\ runFiles' = runFiles
       /\ IF i' = i
          THEN /\ DOMAIN batchPromises' = DOMAIN batchPromises
               /\ \A k \in DOMAIN batchPromises :
                    \/ batchPromises'[k] = batchPromises[k]
                    \/ /\ batchPromises[k].state = "pending"
                       /\ batchPromises'[k].state = "fulfilled"
          ELSE /\ i' = i + batchSize
               /\ PendingSet \in {{k} : k \in DOMAIN batchPromises}
               /\ OneRequestEach(batchPromises', runFiles, i')
  /\ (pc = "running" /\ pc' # "running") =>
       /\ pc' = "done"
       /\ i + batchSize >= Len(runFiles)
       /\ batchPromises' = <<>>
       /\ Len(convertedResults') + Len(failedConversions') = Len(runFiles)
  /\ (error' = [kind |-> "zipFailed"] /\ error' # error) =>
       /\ download.generating # NoArchive
       /\ download'.generating = NoArchive
       /\ download'.clicked = download.clicked
  /\ (download'.generating # NoArchive
       /\ download'.generating # download.generating) => handleZipDownload
\* C26: a Convert run issues its requests group by group, one request for
\* each file of the group and each group once, whether the requests of the
\* groups before failed or not; a request that has settled is not issued
\* again; when the creation of an archive fails the failure is reported and
\* no archive is being created until the user asks for one again.
C26_NothingRetried == [][C26_Step]_vars

\* The creation of an archive has failed after a run over more than one
\* group in which some requests failed, and nothing is in flight.
C26_Witness ==
  /\ error = [kind |-> "zipFailed"]
  /\ download.generating = NoArchive
  /\ success.kind = "someConverted"
  /\ Len(selectedFiles) > batchSize
  /\ convertedImages # <<>>
  /\ PendingSet = {}

\* ------------------------------------------- claims on archive failures
C27_Step ==
  /\ DownloadArchiveOnNone =>
       /\ error' = [kind |-> "noConvertedImages"]
       /\ download' = download
  /\ (Len(convertedImages) = 0 /\ download.generating = NoArchive) =>
       download' = download
  /\ (download.generating # NoArchive /\ download'.generating = NoArchive) =>
       /\ convertedImages' = convertedImages
       /\ selectedFiles' = selectedFiles
       /\ conversionProgress' = conversionProgress
       /\ success' = success
       /\ error' \in {error, [kind |-> "zipFailed"]}
  /\ (error' = [kind |-> "zipFailed"] /\ error' # error) =>
       /\ download.generating # NoArchive
       /\ download'.generating = NoArchive
       /\ download'.clicked = download.clicked
       /\ ZipDownloadShown' <=> ZipDownloadShown
       /\ IndividualDownloadsShown' <=> IndividualDownloadsShown
\* C27: DownloadArchive() with no Success outcome reports an error and
\* starts no download, and nothing can start one while there is no outcome
\* and no archive in creation; when the creation of an archive ends, in a
\* download or in a failure, the outcomes, the pending batch, the progress
\* and the success message are as before; a failure is reported as the one
\* top-level error, starts no download and leaves the same download
\* controls exposed, with no archive in creation.
C27_ArchiveFailureKeepsOutcomes == [][C27_Step]_vars

\* After the creation of an archive failed, an individual download and then
\* a new archive creation have been started.
C27_Witness ==
  /\ error = [kind |-> "zipFailed"]
  /\ download.clicked.kind = "single"
  /\ download.generating # NoArchive
  /\ Len(convertedImages) = 3

\* ---------------------------------------------------- claims on ending
\* The number of groups of batchSize that n files make: n / 3, rounded up.
GroupsOf(n) == (n + 2) \div 3

C28_Step ==
  /\ (pc = "running" /\ pc' # "running") =>
       /\ pc' = "done"
       /\ Len(runFiles) >= 1
       /\ Len(progressUpdates') = GroupsOf(Len(runFiles))
       /\ i' = batchSize * GroupsOf(Len(runFiles))
       /\ ~isConverting'
  /\ (pc = "running" /\ pc' = "running") =>
       /\ isConverting'
       /\ Len(progressUpdates') < GroupsOf(Len(runFiles))
  /\ ConvertOnEmpty =>
       /\ isConverting' = isConverting
       /\ batchPromises' = batchPromises
       /\ pc' \in {pc, "idle"}
       /\ error' = [kind |-> "selectImagesFirst"]
  /\ (Len(selectedFiles) = 0 /\ pc # "running") =>
       (pc' # "running" /\ ~isConverting')
\* C28: with every issued request settling in the end, a Convert run over
\* N >= 1 files always comes to its end, whatever its requests come back
\* with and whatever is selected or reset meanwhile; it ends after exactly
\* N / 3 (rounded up) groups, and the converting flag, up during the run,
\* is down when it has ended. Convert() on an empty pending batch issues no
\* request and does not raise the flag.
C28_RunEnds ==
  /\ (pc = "running") ~> (pc = "done" /\ ~isConverting)
  /\ [][C28_Step]_vars

\* A run over more than one group has ended with every request failed and
\* the batch reset meanwhile.
C28_Witness ==
  /\ pc = "done"
  /\ ~isConverting
  /\ Len(runFiles) > batchSize
  /\ convertedResults = <<>>
  /\ selectedFiles = <<>>

\* ------------------------------------------------ claims on the format
\* Every request in flight carries the format the run was started with.
RequestsCarryRunFormat ==
  \A k \in PendingSet : batchPromises[k].formData.format = runFormat
\* The name under which these bytes are to be downloaded: the stem of the
\* original name and the format the bytes are in.
NameOfBytes(blob) == ClaimDownloadName(blob.of, blob.format)

\* C29: every request of a run carries the format selected when the run
\* started, and the extension of each download name and of each archive
\* entry is the format the downloaded bytes were converted to, whatever
\* format is selected during the run or after it.
C29_FormatFixed ==
  /\ RequestsCarryRunFormat
  /\ download.generating # NoArchive =>
       \A name \in DOMAIN download.generating.entries :
         name = NameOfBytes(download.generating.entries[name])
  /\ download.clicked.kind = "single" =>
       \A k \in 1..Len(convertedImages) :
         convertedImages[k].convertedUrl = download.clicked.href =>
           download.clicked.name = NameOfBytes(convertedImages[k].convertedBlob)

\* ------------------------------------------- claims on exposed outcomes
\* C30: while a batch is pending, every Success outcome exposed for
\* download belongs to it: its original name is the name of a file of the
\* batch, also when an Ingest has replaced the batch during the run that
\* produced the outcome.
C30_ExposedOutcomesOfBatch ==
  selectedFiles # <<>> =>
    \A k \in 1..Len(convertedImages) :
      \E j \in 1..Len(selectedFiles) :
        selectedFiles[j].name = convertedImages[k].originalName

====
